---- MODULE Spec2Model ----
(***************************************************************************)
(* Model of the HubSpot briefing service (src/main.py): the /brief        *)
(* handler, the engagement aggregation get_recent_engagements, the        *)
(* digest format_engagement_summary, the deal classification, the         *)
(* lru_cache'd stage label map and the subject extraction helpers.        *)
(*                                                                         *)
(* Python strings are sequences of one-character strings; JSON values     *)
(* are records [t, n, s] (null, integer or string).                       *)
(***************************************************************************)
EXTENDS Integers, Sequences, FiniteSets, TLC

VARIABLES
    \* ---- extract_email_subject under test (SpecSubject)
    metadata,     \* the metadata dict handed to extract_email_subject
    subjectOut,   \* [done, s]: the value returned
    \* ---- the stage label cache and the threads using it
    cache,        \* lru_cache of get_stage_label_map: [full, map]
    catalog,      \* the pipeline catalog the CRM currently holds
    tpc,          \* thread -> position inside get_stage_label_map
    tfetched,     \* thread -> the catalog body its own fetch returned
    tret,         \* thread -> [done, map]: the mapping returned to it
    fetches,      \* number of catalog fetches issued so far
    builds,       \* number of times a stage map was built from a response
    \* ---- one /brief request
    pc,           \* position of the request inside brief / its callees
    email,        \* the email query parameter (None, or a str)
    calls,        \* the external CRM calls issued so far, in order
    failed,       \* the calls that returned a non-success status, in order
    notFound,     \* the lookup that yielded zero results: "none", "contact", "company"
    outcome,      \* "pending", "brief", "http404", or the exception that ended it
    contacts,     \* brief's contacts (line 332)
    crmDeals,     \* CRM side: the company's deals inside the close-date window
    crmContacts,  \* CRM side: the company's associated contacts, [id, hasEmail]
    crmItems,     \* CRM side: the engagement items its feeds are made of
    dealResults,  \* "results" of the deal search response
    deals,        \* get_all_deals_for_company's return value
    buckets,      \* [cw, cl, exp, res, act] of brief
    \* ---- get_associated_contacts
    caller,       \* who called get_associated_contacts: "brief" or "engagements"
    assocTodo,    \* association ids still to fetch
    assocAcc,     \* the local list `contacts` being built
    \* ---- get_recent_engagements
    engs,         \* the local list `engs`
    engContacts,  \* the local list `contacts` (line 274)
    ci,           \* index of the contact whose feed is being paged
    offset,       \* the local `offset`
    chain,        \* CRM side: the pages of the current scope's feed revealed so far
    fetched,      \* the requests of the current scope: [param, page]
    scopeBase,    \* Len(engs) when the current scope began
    companyLen,   \* Len(engs) when the company-level loop ended
    budget,       \* CRM side: engagement items not yet placed on a page
    result,       \* get_recent_engagements' return value
    digest        \* format_engagement_summary's return value

(***************************************************************************)
(* Strings                                                                 *)
(***************************************************************************)
\* the cased letters of the stage labels and engagement types, which are
\* ASCII text; a cased letter outside ASCII is left as it is by LowerChar and
\* UpperChar, which str.lower() and str.title() would map
UpperCase == <<"A","B","C","D","E","F","G","H","I","J","K","L","M",
               "N","O","P","Q","R","S","T","U","V","W","X","Y","Z">>

LowerCase == <<"a","b","c","d","e","f","g","h","i","j","k","l","m",
               "n","o","p","q","r","s","t","u","v","w","x","y","z">>

IndexIn(c, alphabet) ==
    IF \E i \in 1..Len(alphabet) : alphabet[i] = c
    THEN CHOOSE i \in 1..Len(alphabet) : alphabet[i] = c
    ELSE 0

IsLetter(c) == IndexIn(c, UpperCase) > 0 \/ IndexIn(c, LowerCase) > 0

LowerChar(c) == IF IndexIn(c, UpperCase) > 0 THEN LowerCase[IndexIn(c, UpperCase)] ELSE c

UpperChar(c) == IF IndexIn(c, LowerCase) > 0 THEN UpperCase[IndexIn(c, LowerCase)] ELSE c

\* str.lower()
Lower(s) == [i \in 1..Len(s) |-> LowerChar(s[i])]

\* str.title(): a letter is upper-cased when no letter precedes it, lower-cased otherwise
Title(s) ==
    [i \in 1..Len(s) |->
        IF i > 1 /\ IsLetter(s[i - 1]) THEN LowerChar(s[i]) ELSE UpperChar(s[i])]

\* the Python test `needle in hay` on strings
Contains(hay, needle) ==
    \E i \in 0..(Len(hay) - Len(needle)) :
        \A j \in 1..Len(needle) : hay[i + j] = needle[j]

\* the characters str.strip() removes (lines 109, 113), those for which
\* str.isspace() holds: tab, line feed, vertical tab, form feed, carriage
\* return, U+001C to U+001F, space, U+0085, U+00A0 and U+1680, the last eight
\* written as the characters themselves. The other code points of
\* str.isspace() (U+2000 to U+200A, U+2028, U+2029, U+202F, U+205F, U+3000)
\* are characters no string of this module can hold.
Whitespace ==
    {"\t", "\n", "\f", "\r", " ", "", "", "", "", "", "", " ", " "}

RECURSIVE LStrip(_)
LStrip(s) ==
    IF s # <<>> /\ Head(s) \in Whitespace THEN LStrip(Tail(s)) ELSE s

RECURSIVE RStrip(_)
RStrip(s) ==
    IF s # <<>> /\ s[Len(s)] \in Whitespace
    THEN RStrip(SubSeq(s, 1, Len(s) - 1))
    ELSE s

\* str.strip()
Strip(s) == RStrip(LStrip(s))

\* index of the first ">" of s, 0 when there is none
FirstGt(s) ==
    IF \E i \in 1..Len(s) : s[i] = ">"
    THEN CHOOSE i \in 1..Len(s) : s[i] = ">" /\ \A j \in 1..(i - 1) : s[j] # ">"
    ELSE 0

\* re.sub("<[^>]+>", "", s): leftmost non-overlapping matches removed
RECURSIVE SubTags(_)
SubTags(s) ==
    IF s = <<>> THEN <<>>
    ELSE IF Head(s) = "<" /\ FirstGt(Tail(s)) >= 2
         THEN SubTags(SubSeq(s, FirstGt(Tail(s)) + 2, Len(s)))
         ELSE <<Head(s)>> \o SubTags(Tail(s))

(***************************************************************************)
(* JSON values                                                             *)
(***************************************************************************)
Null == [t |-> "null", n |-> 0, s |-> <<>>]

JStr(str) == [t |-> "str", n |-> 0, s |-> str]

JInt(i) == [t |-> "int", n |-> i, s |-> <<>>]

\* Python truthiness of None, an int or a str
Truthy(v) ==
    CASE v.t = "null" -> FALSE
      [] v.t = "int"  -> v.n # 0
      [] OTHER        -> v.s # <<>>

\* the Python expression `a or b`
Or(a, b) == IF Truthy(a) THEN a ELSE b

(***************************************************************************)
(* Helpers of src/main.py                                                  *)
(***************************************************************************)
\* strip_html(text): text is None or a str, as every metadata value of the
\* model is (a number would make re.sub or .strip raise)
strip_html(text) == Strip(SubTags(Or(text, JStr(<<>>)).s))

SnippetLen == 60

NoSubject == <<"(","n","o"," ","s","u","b","j","e","c","t",")">>

NoOutcome == <<"(","n","o"," ","o","u","t","c","o","m","e"," ",
               "l","o","g","g","e","d",")">>

Prefix(s, n) == SubSeq(s, 1, IF Len(s) < n THEN Len(s) ELSE n)

extract_email_subject(meta) ==
    LET subj == Or(meta.subject, meta.emailSubject) IN
    IF Truthy(subj) /\ Strip(subj.s) # <<>>
    THEN strip_html(subj)
    ELSE LET fallback == Or(Or(Or(meta.bodyPreview, meta.body), meta.text), JStr(<<>>))
             cleaned  == strip_html(fallback)
             snippet  == Prefix(cleaned, SnippetLen)
         IN  IF snippet # <<>> THEN snippet ELSE NoSubject

extract_call_outcome(meta) ==
    LET notes   == Or(Or(meta.body, meta.notes), meta.title)
        cleaned == strip_html(notes)
    IN  IF cleaned # <<>> THEN cleaned ELSE NoOutcome

(***************************************************************************)
(* get_stage_label_map: the catalog flattening and functools.lru_cache     *)
(***************************************************************************)
Flatten(seqs) ==
    LET RECURSIVE Cat(_)
        Cat(i) == IF i > Len(seqs) THEN <<>> ELSE seqs[i] \o Cat(i + 1)
    IN  Cat(1)

\* lines 131-135: stage_map[stage["id"]] = stage["label"] over every stage of
\* every pipeline, in order; a later assignment to the same id overwrites
BuildStageMap(results) ==
    LET stages == Flatten([i \in 1..Len(results) |-> results[i].stages])
        ids    == {stages[i].id : i \in 1..Len(stages)}
        last(id) == CHOOSE i \in 1..Len(stages) :
                        /\ stages[i].id = id
                        /\ \A j \in (i + 1)..Len(stages) : stages[j].id # id
    IN  [id \in ids |-> stages[last(id)].label]

\* dict.get(key, default) on a stage map
MapGet(map, key, default) == IF key \in DOMAIN map THEN map[key] ELSE default

EmptyMap == [id \in {} |-> <<>>]

ClosedWonLabel == <<"C","l","o","s","e","d"," ","W","o","n">>

ClosedLostLabel == <<"C","L","O","S","E","D"," ","L","O","S","T">>

DiscoveryLabel == <<"D","i","s","c","o","v","e","r","y">>

ExpansionWonLabel == <<"E","x","p","a","n","s","i","o","n","/","R","e","n","e","w","a","l",
                       " ","-"," ","W","o","n">>

ResurrectedLabel == <<"R","e","s","u","r","r","e","c","t","e","d">>

WonExpansionLabel == <<"c","l","o","s","e","d"," ","w","o","n"," ",
                       "e","x","p","a","n","s","i","o","n">>

LostResurrectedLabel == <<"R","e","s","u","r","r","e","c","t","e","d"," ","-"," ",
                          "C","l","o","s","e","d"," ","L","o","s","t">>

Stage(id, label) == [id |-> id, label |-> label]

\* raw stage identifiers
S1 == <<"s","1">>

S2 == <<"s","2">>

\* a stage id no catalog lists; as a label it reads "closed won"
S9 == <<"c","l","o","s","e","d"," ","w","o","n">>

S3 == <<"s","3">>

\* the pipeline catalogs the CRM may hold (the "results" of the catalog response)
CatalogA == <<[stages |-> <<Stage(S1, ClosedWonLabel), Stage(S2, DiscoveryLabel)>>]>>

CatalogB == <<[stages |-> <<Stage(S1, ClosedWonLabel), Stage(S2, ClosedLostLabel)>>],
              [stages |-> <<Stage(S1, ExpansionWonLabel)>>]>>

CatalogC == <<[stages |-> <<Stage(S1, WonExpansionLabel), Stage(S2, LostResurrectedLabel),
                            Stage(S3, ResurrectedLabel)>>]>>

Catalogs == {CatalogA, CatalogB, CatalogC, <<>>}

(***************************************************************************)
(* Deals: get_all_deals_for_company's DealInfo and brief's classification  *)
(***************************************************************************)
\* lines 230-236: the stage is the label of the raw stage id, or the raw id
DealInfo(d, stage_map) ==
    [id |-> d.id, stage |-> MapGet(stage_map, d.dealstage, d.dealstage)]

BuildDeals(results, stage_map) ==
    [i \in 1..Len(results) |-> DealInfo(results[i], stage_map)]

KwClosedWon == <<"c","l","o","s","e","d"," ","w","o","n">>

KwClosedLost == <<"c","l","o","s","e","d"," ","l","o","s","t">>

KwExpansion == <<"e","x","p","a","n","s","i","o","n">>

KwResurrected == <<"r","e","s","u","r","r","e","c","t","e","d">>

BucketNames == {"cw", "cl", "exp", "res", "act"}

\* a variant of the chain that tests the expansion keyword first
BucketOfExpansionFirst(st) ==
    IF Contains(st, KwExpansion) THEN "exp"
    ELSE IF Contains(st, KwClosedWon) THEN "cw"
    ELSE IF Contains(st, KwClosedLost) THEN "cl"
    ELSE IF Contains(st, KwResurrected) THEN "res"
    ELSE "act"

\* lines 336-341: the if/elif chain on st = d.stage.lower()
BucketOf(st) ==
    IF Contains(st, KwClosedWon) THEN "cw"
    ELSE IF Contains(st, KwClosedLost) THEN "cl"
    ELSE IF Contains(st, KwExpansion) THEN "exp"
    ELSE IF Contains(st, KwResurrected) THEN "res"
    ELSE "act"

EmptyBuckets == [b \in BucketNames |-> <<>>]

\* one iteration of the loop of line 335
ClassifyDeal(b, d) ==
    LET st == Lower(d.stage) IN [b EXCEPT ![BucketOf(st)] = Append(@, d)]

\* lines 334-341
Classify(ds) ==
    LET RECURSIVE Loop(_, _)
        Loop(b, i) == IF i > Len(ds) THEN b ELSE Loop(ClassifyDeal(b, ds[i]), i + 1)
    IN  Loop(EmptyBuckets, 1)

(***************************************************************************)
(* Engagements: EngagementInfo, deduplication, ordering, truncation        *)
(***************************************************************************)
Digits == <<"0","1","2","3","4","5","6","7","8","9">>

RECURSIVE IntToStr(_)
IntToStr(n) ==
    IF n < 10 THEN <<Digits[n + 1]>> ELSE IntToStr(n \div 10) \o <<Digits[(n % 10) + 1]>>

\* str(x) for None, a non-negative int or a str
PyStr(v) ==
    CASE v.t = "null" -> <<"N","o","n","e">>
      [] v.t = "int"  -> IntToStr(v.n)
      [] OTHER        -> v.s

\* a datetime is <<day since 1970-01-01, millisecond of the day>>
MsPerDay == 86400000

\* datetime.min, 0001-01-01 00:00
DatetimeMin == <<-719162, 0>>

\* datetime.fromtimestamp(ts / 1000.0), the process running in UTC
FromTimestamp(ms) == <<ms \div MsPerDay, ms % MsPerDay>>

DtLess(a, b) == a[1] < b[1] \/ (a[1] = b[1] /\ a[2] < b[2])

DtGeq(a, b) == ~DtLess(a, b)

\* lines 266, 297: ts / 1000.0 raises TypeError when ts is a non-empty str
TsRaises(ts) == Truthy(ts) /\ ts.t # "int"

CreatedAt(ts) == IF Truthy(ts) THEN FromTimestamp(ts.n) ELSE DatetimeMin

KindEmail == <<"e","m","a","i","l">>

KindCall == <<"c","a","l","l">>

CompanyKinds == {KindEmail, KindCall}

ContactKinds == {KindCall}

TypeEmail == <<"E","m","a","i","l">>

TypeCall == <<"C","a","l","l">>

\* lines 262-268 and 293-299
EngagementInfo(e) ==
    [id        |-> PyStr(e.id),
     type      |-> Title(e.type),
     createdAt |-> CreatedAt(e.ts),
     subject   |-> IF Lower(e.type) = KindEmail
                   THEN extract_email_subject(e.meta)
                   ELSE extract_call_outcome(e.meta)]

\* the for loop over data["results"] (lines 254-268, 285-299): the records of
\* the kinds collected at this scope are appended; raised when a timestamp
\* made the loop raise
CollectPage(acc, results, kinds) ==
    LET RECURSIVE Loop(_, _)
        Loop(a, i) ==
            IF i > Len(results) THEN [engs |-> a, raised |-> FALSE]
            ELSE IF Lower(results[i].type) \notin kinds THEN Loop(a, i + 1)
            ELSE IF TsRaises(results[i].ts) THEN [engs |-> a, raised |-> TRUE]
            ELSE Loop(Append(a, EngagementInfo(results[i])), i + 1)
    IN  Loop(acc, 1)

\* a variant of line 304 that keeps every record
DedupKeepAll(es) == es

\* line 304: {e.id: e for e in engs}.values(): one entry per id, at the place
\* of the id's first occurrence, holding the id's last record
DedupById(es) ==
    LET first(i) == \A j \in 1..(i - 1) : es[j].id # es[i].id
        lastOf(id) == es[CHOOSE i \in 1..Len(es) :
                            /\ es[i].id = id
                            /\ \A j \in (i + 1)..Len(es) : es[j].id # id]
        RECURSIVE Walk(_)
        Walk(i) == IF i > Len(es) THEN <<>>
                   ELSE (IF first(i) THEN <<lastOf(es[i].id)>> ELSE <<>>) \o Walk(i + 1)
    IN  Walk(1)

\* line 305: sorted(engs, key=createdAt, reverse=True), a stable sort
SortByCreatedAtDesc(es) ==
    LET Insert(acc, x) ==
            LET k == Cardinality({j \in 1..Len(acc) : DtGeq(acc[j].createdAt, x.createdAt)})
            IN  SubSeq(acc, 1, k) \o <<x>> \o SubSeq(acc, k + 1, Len(acc))
        RECURSIVE Fold(_, _)
        Fold(acc, i) == IF i > Len(es) THEN acc ELSE Fold(Insert(acc, es[i]), i + 1)
    IN  Fold(<<>>, 1)

GlobalLimit == 20

IsEmailOrCall(e) == e.type \in {TypeEmail, TypeCall}

\* line 306: [e for e in engs if e.type in ("Email","Call")][:20]
Truncate(es) == Prefix(SelectSeq(es, IsEmailOrCall), GlobalLimit)

\* lines 304-306
RecentEngagements(es) == Truncate(SortByCreatedAtDesc(DedupById(es)))

DigestLimit == 5

\* one digest line f"{cnt}. **{date}** - {subject}": its three parts
DigestLine(cnt, e) == [ordinal |-> cnt, date |-> e.createdAt[1], subject |-> e.subject]

\* lines 308-320
format_engagement_summary(es, limit) ==
    LET RECURSIVE Loop(_, _, _)
        Loop(emails, cs, i) ==
            IF i > Len(es) THEN [emails |-> emails, calls |-> cs]
            ELSE LET e  == es[i]
                     em == IF e.type = TypeEmail /\ Len(emails) < limit
                           THEN Append(emails, DigestLine(Len(emails) + 1, e))
                           ELSE emails
                     ca == IF ~(e.type = TypeEmail /\ Len(emails) < limit)
                              /\ e.type = TypeCall /\ Len(cs) < limit
                           THEN Append(cs, DigestLine(Len(cs) + 1, e))
                           ELSE cs
                 IN  IF Len(em) >= limit /\ Len(ca) >= limit
                     THEN [emails |-> em, calls |-> ca]
                     ELSE Loop(em, ca, i + 1)
    IN  Loop(<<>>, <<>>, 1)

(***************************************************************************)
(* State                                                                   *)
(***************************************************************************)
subjectVars == <<metadata, subjectOut>>

cacheVars == <<cache, catalog, tpc, tfetched, tret, fetches, builds>>

crmVars == <<crmDeals, crmContacts, crmItems>>

briefVars == <<pc, email, calls, failed, notFound, outcome, contacts,
               crmVars, dealResults, deals, buckets>>

assocVars == <<caller, assocTodo, assocAcc>>

engVars == <<engs, engContacts, ci, offset, chain, fetched, scopeBase, companyLen,
             budget, result, digest>>

vars == <<subjectVars, cacheVars, briefVars, assocVars, engVars>>

Threads == {"t1", "t2"}

\* the thread serving the /brief request of the request model
Worker == "t1"

\* bound on the catalog fetches of one run
MaxCatalogFetches == 3

NoReturn == [done |-> FALSE, map |-> EmptyMap]

EmptyCache == [full |-> FALSE, map |-> EmptyMap]

(***************************************************************************)
(* get_stage_label_map under functools.lru_cache                           *)
(***************************************************************************)
\* lru_cache wrapper, first lookup (line 126): a hit returns the cached map,
\* a miss goes on to call the wrapped function
CacheLookup(t) ==
    /\ tpc[t] = "idle"
    /\ IF cache.full
       THEN /\ tpc' = [tpc EXCEPT ![t] = "done"]
            /\ tret' = [tret EXCEPT ![t] = [done |-> TRUE, map |-> cache.map]]
       ELSE /\ tpc' = [tpc EXCEPT ![t] = "fetching"]
            /\ tret' = tret
    /\ UNCHANGED <<cache, catalog, tfetched, fetches, builds>>

\* line 130: requests.get(...); r.raise_for_status()
CatalogFetch(t, ok) ==
    /\ tpc[t] = "fetching"
    /\ fetches < MaxCatalogFetches
    /\ fetches' = fetches + 1
    /\ IF ok
       THEN /\ tpc' = [tpc EXCEPT ![t] = "building"]
            /\ tfetched' = [tfetched EXCEPT ![t] = catalog]
       ELSE /\ tpc' = [tpc EXCEPT ![t] = "raised"]
            /\ tfetched' = tfetched
    /\ UNCHANGED <<cache, catalog, tret, builds>>

\* what the lru_cache wrapper does with the wrapped function's result: the
\* result is stored unless the key was added meanwhile, and the caller gets
\* the result of its own call either way
CacheStore(c, map) == IF c.full THEN c ELSE [full |-> TRUE, map |-> map]

\* lines 131-135, then the wrapper's store
BuildAndStore(t) ==
    /\ tpc[t] = "building"
    /\ LET map == BuildStageMap(tfetched[t]) IN
        /\ cache' = CacheStore(cache, map)
        /\ tret' = [tret EXCEPT ![t] = [done |-> TRUE, map |-> map]]
    /\ builds' = builds + 1
    /\ tpc' = [tpc EXCEPT ![t] = "done"]
    /\ UNCHANGED <<catalog, tfetched, fetches>>

\* the request that called get_stage_label_map ends; the worker thread
\* serves the next request
ThreadNext(t) ==
    /\ tpc[t] \in {"done", "raised"}
    /\ tpc' = [tpc EXCEPT ![t] = "idle"]
    /\ tret' = [tret EXCEPT ![t] = NoReturn]
    /\ tfetched' = [tfetched EXCEPT ![t] = <<>>]
    /\ UNCHANGED <<cache, catalog, fetches, builds>>

\* the CRM's catalog is edited
CatalogEdit ==
    /\ \E c \in Catalogs \ {catalog} : catalog' = c
    /\ UNCHANGED <<cache, tpc, tfetched, tret, fetches, builds>>

(***************************************************************************)
(* extract_email_subject applied to one metadata dict                      *)
(***************************************************************************)
LongText == [i \in 1..(SnippetLen + 1) |-> "x"]

\* U+00A0, the no-break space of HTML e-mail text
NoBreakSpace == " "

FieldValues ==
    { Null, JStr(<<>>), JStr(<<" ">>), JStr(<<"\r","\n",NoBreakSpace>>), JStr(<<"H","i">>),
      JStr(<<"<","b",">">>), JStr(<<"<","b",">","H","i","<","/","b",">","\r","\n">>),
      JStr(LongText) }

MetaFields == {"subject", "emailSubject", "bodyPreview", "body", "text", "notes", "title"}

EmailFields == <<"subject", "emailSubject", "bodyPreview", "body", "text">>

NoMeta == [f \in MetaFields |-> Null]

ExtractSubject ==
    /\ ~subjectOut.done
    /\ subjectOut' = [done |-> TRUE, s |-> extract_email_subject(metadata)]
    /\ UNCHANGED metadata

(***************************************************************************)
(* The CRM's answers                                                       *)
(***************************************************************************)
\* bound on the engagement items (single records or runs) of one company
MaxRecords == 3

\* the same bound for the model of the whole /brief request
BriefRecords == 1

\* bound on the page requests of one fetch scope
MaxFetch == 4

\* bound on the deals of one company
MaxDeals == 2

RawEmail == <<"E","M","A","I","L">>

RawCall == <<"C","A","L","L">>

RawNote == <<"N","O","T","E">>

EmailMeta == [NoMeta EXCEPT !.subject = JStr(<<"H","i">>)]

CallMeta == [NoMeta EXCEPT !.body = JStr(<<"<","b",">","o","k","<","/","b",">">>)]

Raw(id, type, ts) ==
    [id |-> id, type |-> type, ts |-> ts,
     meta |-> IF type = RawEmail THEN EmailMeta ELSE CallMeta]

BadTs == JStr(<<"s","o","o","n">>)

\* n records of one kind with ids base+1 .. base+n and the timestamp ts
Run(type, base, n, ts) == [i \in 1..n |-> Raw(JInt(base + i), type, JInt(ts))]

\* an email and a call that share the identifier 1 (as a number and as a
\* string), a call and an email with another identifier, with and without a
\* timestamp, a note, an email and a call whose timestamp is a string, a run
\* of GlobalLimit emails and a run of DigestLimit calls
FeedItems ==
    { <<Raw(JInt(1), RawEmail, JInt(1000))>>,
      <<Raw(JStr(<<"1">>), RawCall, Null)>>,
      <<Raw(JInt(2), RawCall, JInt(1000))>>,
      <<Raw(JInt(2), RawEmail, Null)>>,
      <<Raw(JInt(2), RawNote, JInt(1000))>>,
      <<Raw(JInt(2), RawEmail, BadTs)>>,
      <<Raw(JInt(1), RawCall, BadTs)>>,
      Run(RawEmail, 100, GlobalLimit, 2000),
      Run(RawCall, 200, DigestLimit, 2000) }

BriefItems == { <<Raw(JInt(1), RawEmail, JInt(1000))>>, <<Raw(JInt(1), RawCall, Null)>> }

Offsets == {JInt(0), JInt(100)}

\* the pages the CRM may reveal next in a feed of which ch is already revealed:
\* the last page, empty or with one item, or a page with one item that names
\* a fresh offset
NewPages(b, ch, items) ==
    { [results |-> <<>>, hasMore |-> FALSE, offset |-> Null] }
    \cup
    { [results |-> r, hasMore |-> c.hasMore, offset |-> c.offset] :
        r \in (IF b > 0 THEN items ELSE {}),
        c \in {[hasMore |-> FALSE, offset |-> Null]}
              \cup {[hasMore |-> TRUE, offset |-> o] :
                        o \in Offsets \ {ch[i].offset : i \in 1..Len(ch)}} }

Contact(id, hasEmail) == [id |-> id, hasEmail |-> hasEmail]

CrmContactLists ==
    { <<>>, <<Contact("c1", TRUE)>>, <<Contact("c1", FALSE), Contact("c2", TRUE)>>,
      <<Contact("c1", TRUE), Contact("c2", TRUE)>> }

\* the bodies of the association listing response: JSON with "results" on
\* success; on a non-success status a JSON error body or a non-JSON body
AssocBodies(ok) ==
    IF ok THEN {[json |-> TRUE, results |-> crmContacts]}
    ELSE {[json |-> TRUE, results |-> <<>>], [json |-> FALSE, results |-> <<>>]}

StageIds == {S1, S2, S3, S9}

\* deal search results: deals 1..k, each at some raw stage
DealLists(k) ==
    UNION { { [i \in 1..n |-> [id |-> i, dealstage |-> f[i]]] : f \in [1..n -> StageIds] } :
            n \in 0..k }

(***************************************************************************)
(* One /brief request                                                      *)
(***************************************************************************)
\* lines 149-151: zero results raise HTTPException(404)
ContactLookup(n) == IF n = 0 THEN "http404" ELSE "found"

\* a variant of lines 170-172 that never raises
CompanyLookupNeverRaises(n) == "found"

\* lines 170-172
CompanyLookup(n) == IF n = 0 THEN "http404" ELSE "found"

\* r.raise_for_status()
RaisesForStatus(ok) == ~ok

\* lines 324-325, get_contact_by_email
ContactSearch(ok, n) ==
    /\ pc = "contact"
    /\ Truthy(email)
    /\ calls' = Append(calls, "contact_search")
    /\ failed' = IF ok THEN failed ELSE Append(failed, "contact_search")
    /\ notFound' = IF ok /\ n = 0 THEN "contact" ELSE notFound
    /\ IF RaisesForStatus(ok) THEN pc' = "done" /\ outcome' = "HTTPError"
       ELSE IF ContactLookup(n) = "http404" THEN pc' = "done" /\ outcome' = "http404"
       ELSE pc' = "company" /\ outcome' = outcome
    /\ UNCHANGED <<email, contacts, crmVars, dealResults, deals, buckets>>
    /\ UNCHANGED <<subjectVars, cacheVars, assocVars, engVars>>

\* lines 326-327: no email, a placeholder contact
PlaceholderContact ==
    /\ pc = "contact"
    /\ ~Truthy(email)
    /\ pc' = "company"
    /\ UNCHANGED <<email, calls, failed, notFound, outcome, contacts,
                   crmVars, dealResults, deals, buckets>>
    /\ UNCHANGED <<subjectVars, cacheVars, assocVars, engVars>>

\* lines 329-330, get_company_by_domain
CompanySearch(ok, n) ==
    /\ pc = "company"
    /\ calls' = Append(calls, "company_search")
    /\ failed' = IF ok THEN failed ELSE Append(failed, "company_search")
    /\ notFound' = IF ok /\ n = 0 THEN "company" ELSE notFound
    /\ IF RaisesForStatus(ok) THEN pc' = "done" /\ outcome' = "HTTPError" /\ caller' = caller
       ELSE IF CompanyLookup(n) = "http404"
            THEN pc' = "done" /\ outcome' = "http404" /\ caller' = caller
       ELSE pc' = "assoc" /\ outcome' = outcome /\ caller' = "brief"
    /\ UNCHANGED <<email, contacts, crmVars, dealResults, deals, buckets>>
    /\ UNCHANGED <<assocTodo, assocAcc>>
    /\ UNCHANGED <<subjectVars, cacheVars, engVars>>

\* line 188: requests.get(url).json().get("results", []) raises only when the
\* body is not JSON; the status is not looked at
AssocListRaises(ok, body) == ~body.json

\* get_associated_contacts, lines 185-188: the association listing
AssocList(ok, body) ==
    /\ pc = "assoc"
    /\ calls' = Append(calls, "assoc_list")
    /\ failed' = IF ok THEN failed ELSE Append(failed, "assoc_list")
    /\ IF AssocListRaises(ok, body)
       THEN /\ pc' = "done"
            /\ outcome' = "JSONDecodeError"
            /\ UNCHANGED <<assocTodo, assocAcc>>
       ELSE /\ pc' = "assoc_fetch"
            /\ outcome' = outcome
            /\ assocTodo' = body.results
            /\ assocAcc' = <<>>
    /\ UNCHANGED <<email, notFound, contacts, crmVars, dealResults, deals, buckets, caller>>
    /\ UNCHANGED <<subjectVars, cacheVars, engVars>>

\* lines 189-204: one iteration of the loop over the associations
ContactFetch(ok) ==
    /\ pc = "assoc_fetch"
    /\ assocTodo # <<>>
    /\ calls' = Append(calls, "contact_fetch")
    /\ failed' = IF ok THEN failed ELSE Append(failed, "contact_fetch")
    /\ IF RaisesForStatus(ok)
       THEN /\ pc' = "done"
            /\ outcome' = "HTTPError"
            /\ UNCHANGED <<assocTodo, assocAcc>>
       ELSE /\ pc' = pc
            /\ outcome' = outcome
            /\ assocTodo' = Tail(assocTodo)
            /\ assocAcc' = IF Head(assocTodo).hasEmail
                           THEN Append(assocAcc, Head(assocTodo).id)
                           ELSE assocAcc
    /\ UNCHANGED <<email, notFound, contacts, crmVars, dealResults, deals, buckets, caller>>
    /\ UNCHANGED <<subjectVars, cacheVars, engVars>>

\* line 205: return contacts, to brief (line 332) or to
\* get_recent_engagements (line 274)
AssocReturn ==
    /\ pc = "assoc_fetch"
    /\ assocTodo = <<>>
    /\ IF caller = "brief"
       THEN /\ contacts' = assocAcc
            /\ pc' = "deal_search"
            /\ UNCHANGED <<engContacts, ci>>
       ELSE /\ engContacts' = assocAcc
            /\ ci' = 1
            /\ pc' = "contact_next"
            /\ contacts' = contacts
    /\ UNCHANGED <<email, calls, failed, notFound, outcome, crmVars, dealResults, deals, buckets>>
    /\ UNCHANGED <<engs, offset, chain, fetched, scopeBase, companyLen, budget, result, digest>>
    /\ UNCHANGED <<subjectVars, cacheVars, assocVars>>

\* get_all_deals_for_company, lines 208-221: the deal search
DealSearch(ok) ==
    /\ pc = "deal_search"
    /\ calls' = Append(calls, "deal_search")
    /\ failed' = IF ok THEN failed ELSE Append(failed, "deal_search")
    /\ IF RaisesForStatus(ok)
       THEN pc' = "done" /\ outcome' = "HTTPError" /\ dealResults' = dealResults
       ELSE pc' = "stage_map" /\ outcome' = outcome /\ dealResults' = crmDeals
    /\ UNCHANGED <<email, notFound, contacts, crmVars, deals, buckets>>
    /\ UNCHANGED <<subjectVars, cacheVars, assocVars, engVars>>

\* line 223: get_stage_label_map(), the cache lookup
StageMapLookup ==
    /\ pc = "stage_map"
    /\ CacheLookup(Worker)
    /\ UNCHANGED <<subjectVars, briefVars, assocVars, engVars>>

\* line 223 on a miss: the catalog fetch of line 130
StageMapFetch(ok) ==
    /\ pc = "stage_map"
    /\ CatalogFetch(Worker, ok)
    /\ calls' = Append(calls, "pipelines")
    /\ failed' = IF ok THEN failed ELSE Append(failed, "pipelines")
    /\ IF RaisesForStatus(ok)
       THEN pc' = "done" /\ outcome' = "HTTPError"
       ELSE pc' = pc /\ outcome' = outcome
    /\ UNCHANGED <<email, notFound, contacts, crmVars, dealResults, deals, buckets>>
    /\ UNCHANGED <<subjectVars, assocVars, engVars>>

\* line 223 on a miss: the map is built and stored
StageMapBuild ==
    /\ pc = "stage_map"
    /\ BuildAndStore(Worker)
    /\ UNCHANGED <<subjectVars, briefVars, assocVars, engVars>>

\* lines 224-237 and 334-341: the deals are built and classified
ClassifyDeals ==
    /\ pc = "stage_map"
    /\ tpc[Worker] = "done"
    /\ LET ds == BuildDeals(dealResults, tret[Worker].map) IN
        /\ deals' = ds
        /\ buckets' = Classify(ds)
    /\ pc' = "company_page"
    /\ UNCHANGED <<email, calls, failed, notFound, outcome, contacts, crmVars, dealResults>>
    /\ UNCHANGED <<subjectVars, cacheVars, assocVars, engVars>>

(***************************************************************************)
(* get_recent_engagements                                                  *)
(***************************************************************************)
\* lines 249-251 and 280-282: the offset is sent only when it is truthy
OffsetParam(off) == IF Truthy(off) THEN off ELSE Null

\* CRM side: the page a request names. No offset names the first page; the
\* offset a response carried names the page after that response's page
Target == IF OffsetParam(offset) = Null \/ fetched = <<>>
          THEN 1
          ELSE fetched[Len(fetched)].page + 1

ServedPages ==
    IF Target <= Len(chain) THEN {chain[Target]} ELSE NewPages(budget, chain, crmItems)

\* one pass of a pagination loop (lines 248-271, 279-302) up to its break test
PageFetch(name, kinds, ok, page) ==
    /\ Len(fetched) < MaxFetch
    /\ calls' = Append(calls, name)
    /\ failed' = IF ok THEN failed ELSE Append(failed, name)
    /\ IF RaisesForStatus(ok)
       THEN /\ outcome' = "HTTPError"
            /\ UNCHANGED <<engs, chain, fetched, budget>>
       ELSE /\ chain' = IF Target <= Len(chain) THEN chain ELSE Append(chain, page)
            /\ budget' = IF Target <= Len(chain) \/ page.results = <<>>
                         THEN budget ELSE budget - 1
            /\ fetched' = Append(fetched, [param |-> OffsetParam(offset), page |-> Target])
            /\ LET col == CollectPage(engs, page.results, kinds) IN
                IF col.raised
                THEN outcome' = "TypeError" /\ engs' = engs
                ELSE outcome' = outcome /\ engs' = col.engs

\* lines 246-271: the company-level loop
CompanyPage(ok, page) ==
    /\ pc = "company_page"
    /\ PageFetch("company_page", CompanyKinds, ok, page)
    /\ IF outcome' # "pending"
       THEN pc' = "done" /\ UNCHANGED <<offset, caller, companyLen>>
       ELSE IF ~page.hasMore
            THEN /\ pc' = "assoc"
                 /\ offset' = offset
                 /\ caller' = "engagements"
                 /\ companyLen' = Len(engs')
            ELSE /\ pc' = pc
                 /\ offset' = page.offset
                 /\ UNCHANGED <<caller, companyLen>>
    /\ UNCHANGED <<email, notFound, contacts, crmVars, dealResults, deals, buckets>>
    /\ UNCHANGED <<assocTodo, assocAcc, engContacts, ci, scopeBase, result, digest>>
    /\ UNCHANGED <<subjectVars, cacheVars>>

\* lines 275-278: the next contact's loop begins
NextContact ==
    /\ pc = "contact_next"
    /\ ci <= Len(engContacts)
    /\ offset' = Null
    /\ chain' = <<>>
    /\ fetched' = <<>>
    /\ scopeBase' = Len(engs)
    /\ pc' = "contact_page"
    /\ UNCHANGED <<email, calls, failed, notFound, outcome, contacts,
                   crmVars, dealResults, deals, buckets>>
    /\ UNCHANGED <<engs, engContacts, ci, companyLen, budget, result, digest>>
    /\ UNCHANGED <<subjectVars, cacheVars, assocVars>>

\* lines 279-302: one contact's loop
ContactPage(ok, page) ==
    /\ pc = "contact_page"
    /\ PageFetch("contact_page", ContactKinds, ok, page)
    /\ IF outcome' # "pending" THEN pc' = "done" /\ UNCHANGED <<offset, ci>>
       ELSE IF ~page.hasMore THEN pc' = "contact_next" /\ offset' = offset /\ ci' = ci + 1
       ELSE pc' = pc /\ offset' = page.offset /\ ci' = ci
    /\ UNCHANGED <<email, notFound, contacts, crmVars, dealResults, deals, buckets>>
    /\ UNCHANGED <<engContacts, scopeBase, companyLen, result, digest>>
    /\ UNCHANGED <<subjectVars, cacheVars, assocVars>>

\* lines 304-306
ReturnEngagements ==
    /\ pc = "contact_next"
    /\ ci > Len(engContacts)
    /\ result' = RecentEngagements(engs)
    /\ pc' = "format"
    /\ UNCHANGED <<email, calls, failed, notFound, outcome, contacts,
                   crmVars, dealResults, deals, buckets>>
    /\ UNCHANGED <<engs, engContacts, ci, offset, chain, fetched, scopeBase, companyLen, budget, digest>>
    /\ UNCHANGED <<subjectVars, cacheVars, assocVars>>

\* line 344
FormatDigest ==
    /\ pc = "format"
    /\ digest' = format_engagement_summary(result, DigestLimit)
    /\ pc' = "respond"
    /\ UNCHANGED <<email, calls, failed, notFound, outcome, contacts,
                   crmVars, dealResults, deals, buckets>>
    /\ UNCHANGED <<engs, engContacts, ci, offset, chain, fetched, scopeBase, companyLen, budget, result>>
    /\ UNCHANGED <<subjectVars, cacheVars, assocVars>>

\* lines 346-366: the brief is returned
Respond ==
    /\ pc = "respond"
    /\ outcome' = "brief"
    /\ pc' = "done"
    /\ UNCHANGED <<email, calls, failed, notFound, contacts,
                   crmVars, dealResults, deals, buckets>>
    /\ UNCHANGED <<subjectVars, cacheVars, assocVars, engVars>>

(***************************************************************************)
(* Specifications                                                          *)
(***************************************************************************)
NoDigest == [emails |-> <<>>, calls |-> <<>>]

SubjectIdle ==
    /\ metadata = NoMeta
    /\ subjectOut = [done |-> FALSE, s |-> <<>>]

ThreadsIdle ==
    /\ tpc = [t \in Threads |-> "idle"]
    /\ tfetched = [t \in Threads |-> <<>>]
    /\ tret = [t \in Threads |-> NoReturn]
    /\ fetches = 0
    /\ builds = 0

CacheIdle ==
    /\ cache = EmptyCache
    /\ catalog = <<>>
    /\ ThreadsIdle

AssocIdle ==
    /\ caller = "brief"
    /\ assocTodo = <<>>
    /\ assocAcc = <<>>

\* line 241 and 247: engs = [], offset = None, nothing fetched yet
EngStart(b) ==
    /\ engs = <<>>
    /\ engContacts = <<>>
    /\ ci = 1
    /\ offset = Null
    /\ chain = <<>>
    /\ fetched = <<>>
    /\ scopeBase = 0
    /\ companyLen = 0
    /\ budget = b
    /\ result = <<>>
    /\ digest = NoDigest

BriefStart(at) ==
    /\ pc = at
    /\ calls = <<>>
    /\ failed = <<>>
    /\ notFound = "none"
    /\ outcome = "pending"
    /\ contacts = <<>>
    /\ dealResults = <<>>
    /\ deals = <<>>
    /\ buckets = EmptyBuckets

SomeEmail == JStr(<<"a","@","b">>)

\* ---- one /brief request, from the handler's first line
Init ==
    /\ BriefStart("contact")
    /\ email \in {Null, JStr(<<>>), SomeEmail}
    /\ crmDeals \in {<<>>, <<[id |-> 1, dealstage |-> S1]>>}
    /\ crmContacts \in {<<Contact("c1", TRUE)>>, <<Contact("c1", FALSE), Contact("c2", TRUE)>>}
    /\ crmItems = BriefItems
    /\ catalog = CatalogA
    /\ cache \in {EmptyCache, [full |-> TRUE, map |-> BuildStageMap(CatalogA)]}
    /\ ThreadsIdle
    /\ AssocIdle
    /\ EngStart(BriefRecords)
    /\ SubjectIdle

Next ==
    \/ \E ok \in BOOLEAN, n \in 0..1 : ContactSearch(ok, n)
    \/ PlaceholderContact
    \/ \E ok \in BOOLEAN, n \in 0..1 : CompanySearch(ok, n)
    \/ \E ok \in BOOLEAN : \E body \in AssocBodies(ok) : AssocList(ok, body)
    \/ \E ok \in BOOLEAN : ContactFetch(ok)
    \/ AssocReturn
    \/ \E ok \in BOOLEAN : DealSearch(ok)
    \/ StageMapLookup
    \/ \E ok \in BOOLEAN : StageMapFetch(ok)
    \/ StageMapBuild
    \/ ClassifyDeals
    \/ \E ok \in BOOLEAN : \E page \in ServedPages : CompanyPage(ok, page)
    \/ NextContact
    \/ \E ok \in BOOLEAN : \E page \in ServedPages : ContactPage(ok, page)
    \/ ReturnEngagements
    \/ FormatDigest
    \/ Respond

Spec == Init /\ [][Next]_vars

\* ---- get_recent_engagements(company_id) followed by format_engagement_summary
InitEng ==
    /\ BriefStart("company_page")
    /\ email = Null
    /\ crmDeals = <<>>
    /\ crmContacts \in CrmContactLists
    /\ crmItems = FeedItems
    /\ CacheIdle
    /\ AssocIdle
    /\ EngStart(MaxRecords)
    /\ SubjectIdle

NextEng ==
    \/ \E ok \in BOOLEAN : \E page \in ServedPages : CompanyPage(ok, page)
    \/ \E ok \in BOOLEAN : \E body \in AssocBodies(ok) : AssocList(ok, body)
    \/ \E ok \in BOOLEAN : ContactFetch(ok)
    \/ AssocReturn
    \/ NextContact
    \/ \E ok \in BOOLEAN : \E page \in ServedPages : ContactPage(ok, page)
    \/ ReturnEngagements
    \/ FormatDigest

SpecEng == InitEng /\ [][NextEng]_vars

\* ---- get_all_deals_for_company and the classification of brief
InitDeals ==
    /\ BriefStart("deal_search")
    /\ email = Null
    /\ crmDeals \in DealLists(MaxDeals)
    /\ crmContacts = <<>>
    /\ crmItems = {}
    /\ catalog \in Catalogs
    /\ cache \in {EmptyCache} \cup {[full |-> TRUE, map |-> BuildStageMap(c)] : c \in Catalogs}
    /\ ThreadsIdle
    /\ AssocIdle
    /\ EngStart(0)
    /\ SubjectIdle

NextDeals ==
    \/ \E ok \in BOOLEAN : DealSearch(ok)
    \/ StageMapLookup
    \/ \E ok \in BOOLEAN : StageMapFetch(ok)
    \/ StageMapBuild
    \/ ClassifyDeals

SpecDeals == InitDeals /\ [][NextDeals]_vars

\* ---- worker threads calling get_stage_label_map request after request
InitCache ==
    /\ BriefStart("idle")
    /\ email = Null
    /\ crmDeals = <<>>
    /\ crmContacts = <<>>
    /\ crmItems = {}
    /\ cache = EmptyCache
    /\ catalog \in Catalogs
    /\ ThreadsIdle
    /\ AssocIdle
    /\ EngStart(0)
    /\ SubjectIdle

NextCache ==
    \/ \E t \in Threads : CacheLookup(t) /\ UNCHANGED <<subjectVars, briefVars, assocVars, engVars>>
    \/ \E t \in Threads : \E ok \in BOOLEAN :
            CatalogFetch(t, ok) /\ UNCHANGED <<subjectVars, briefVars, assocVars, engVars>>
    \/ \E t \in Threads : BuildAndStore(t) /\ UNCHANGED <<subjectVars, briefVars, assocVars, engVars>>
    \/ \E t \in Threads : ThreadNext(t) /\ UNCHANGED <<subjectVars, briefVars, assocVars, engVars>>
    \/ CatalogEdit /\ UNCHANGED <<subjectVars, briefVars, assocVars, engVars>>

SpecCache == InitCache /\ [][NextCache]_vars

\* ---- extract_email_subject on every metadata dict over FieldValues
InitSubject ==
    /\ metadata \in { [NoMeta EXCEPT !.subject = a, !.emailSubject = b, !.bodyPreview = c,
                                     !.body = d, !.text = e] :
                        a \in FieldValues, b \in FieldValues, c \in FieldValues,
                        d \in FieldValues, e \in FieldValues }
    /\ subjectOut = [done |-> FALSE, s |-> <<>>]
    /\ BriefStart("idle")
    /\ email = Null
    /\ crmDeals = <<>>
    /\ crmContacts = <<>>
    /\ crmItems = {}
    /\ CacheIdle
    /\ AssocIdle
    /\ EngStart(0)

NextSubject ==
    ExtractSubject /\ UNCHANGED <<cacheVars, briefVars, assocVars, engVars>>

SpecSubject == InitSubject /\ [][NextSubject]_vars

(***************************************************************************)
(* Properties                                                              *)
(***************************************************************************)
Min(a, b) == IF a < b THEN a ELSE b

IdsOf(es) == {es[i].id : i \in 1..Len(es)}

\* the record of es collected last among those with the identifier id
LastWith(es, id) ==
    es[CHOOSE i \in 1..Len(es) :
           /\ es[i].id = id
           /\ \A j \in (i + 1)..Len(es) : es[j].id # id]

\* the activities of the kind ty that exist after deduplication
ActivitiesOf(es, ty) == {id \in IdsOf(es) : LastWith(es, id).type = ty}

Occurrences(es, id) == {k \in 1..Len(es) : es[k].id = id}

\* C1: the digest limit N applies to each kind separately: with at least N
\* emails and at least N calls collected both lists are full, and a list is
\* shorter than N only when fewer than N activities of that kind exist
C1_PerKindLimit ==
    pc = "respond" =>
        LET nE == Cardinality(ActivitiesOf(engs, TypeEmail))
            nC == Cardinality(ActivitiesOf(engs, TypeCall))
        IN  /\ Len(digest.emails) <= DigestLimit
            /\ Len(digest.calls) <= DigestLimit
            /\ (nE >= DigestLimit /\ nC >= DigestLimit) =>
                   (Len(digest.emails) = DigestLimit /\ Len(digest.calls) = DigestLimit)
            /\ Len(digest.emails) < DigestLimit => nE < DigestLimit
            /\ Len(digest.calls) < DigestLimit => nC < DigestLimit

\* C2: no brief is returned when an upstream CRM request failed: a
\* non-success status of any CRM call aborts the request
C2_FailureAborts == outcome = "brief" => failed = <<>>

\* C3: the engagement list returned holds each engagement identifier at most
\* once, whatever number of scopes and pages the identifier appeared in, and
\* holds as many records as there are identifiers, up to the limit of line 306
C3_EachIdOnce ==
    pc \in {"format", "respond"} =>
        /\ \A i, j \in 1..Len(result) : result[i].id = result[j].id => i = j
        /\ IdsOf(result) \subseteq IdsOf(engs)
        /\ Len(result) = Min(Cardinality(IdsOf(engs)), GlobalLimit)

\* an identifier collected twice in the company feed and once more in a
\* contact's feed, and a list has been returned
C3_Witness ==
    /\ pc = "format"
    /\ Len(result) >= 1
    /\ \E i, j \in 1..companyLen, k \in (companyLen + 1)..Len(engs) :
          i < j /\ engs[i].id = engs[j].id /\ engs[j].id = engs[k].id

\* the bucket the classification rule names for a lower-cased stage label,
\* each rule with its exclusions written out
RuleBucket(st) ==
    LET cw  == Contains(st, KwClosedWon)
        cl  == Contains(st, KwClosedLost)
        ex  == Contains(st, KwExpansion)
        rs  == Contains(st, KwResurrected)
    IN  CASE cw                            -> "cw"
          [] ~cw /\ cl                     -> "cl"
          [] ~cw /\ ~cl /\ ex              -> "exp"
          [] ~cw /\ ~cl /\ ~ex /\ rs       -> "res"
          [] ~cw /\ ~cl /\ ~ex /\ ~rs      -> "act"

InBucket(b, d) == RuleBucket(Lower(d.stage)) = b

\* C4: every deal is in exactly one of the five lists, chosen by the first
\* matching rule on the lower-cased stage label, and each list keeps the
\* order of the deal search
C4_Partition ==
    pc = "company_page" =>
        /\ \A b \in BucketNames :
              buckets[b] = SelectSeq(deals, LAMBDA d : InBucket(b, d))
        /\ \A i \in 1..Len(deals) :
              Cardinality({b \in BucketNames :
                  \E k \in 1..Len(buckets[b]) : buckets[b][k] = deals[i]}) = 1

\* two deals classified, one of them with a label that holds both "closed
\* won" and "expansion", which went to the closed-won list
C4_Witness ==
    /\ pc = "company_page"
    /\ Len(deals) >= 2
    /\ \E i \in 1..Len(deals) :
          /\ Contains(Lower(deals[i].stage), KwClosedWon)
          /\ Contains(Lower(deals[i].stage), KwExpansion)
          /\ \E k \in 1..Len(buckets["cw"]) : buckets["cw"][k] = deals[i]
    /\ \E b \in BucketNames \ {"cw"} : buckets[b] # <<>>

\* C5: the list returned is in non-increasing order of timestamp, and an
\* engagement whose timestamp is missing or cannot be interpreted never
\* makes the request raise
C5_SortedNeverRaises ==
    /\ outcome # "TypeError"
    /\ pc \in {"format", "respond"} =>
          \A i, j \in 1..Len(result) :
              i < j => DtGeq(result[i].createdAt, result[j].createdAt)

\* the pairs <<i, j>> where the company feed gave a record of kind Email and
\* a contact's feed later gave the last record of the same id, of kind Call
EmailThenCall ==
    {p \in (1..companyLen) \X ((companyLen + 1)..Len(engs)) :
        /\ engs[p[1]].id = engs[p[2]].id
        /\ engs[p[1]].type = TypeEmail
        /\ engs[p[2]].type = TypeCall
        /\ \A k \in (p[2] + 1)..Len(engs) : engs[k].id # engs[p[2]].id}

\* C6: the record kept for an identifier is the one collected last, and an
\* identifier collected as Email at the company and then as Call at a
\* contact has a single record in the output, of kind Call
C6_LastSeenInOutput ==
    pc = "format" =>
        /\ \A k \in 1..Len(result) : result[k] = LastWith(engs, result[k].id)
        /\ \A p \in EmailThenCall :
              /\ Cardinality(Occurrences(result, engs[p[2]].id)) = 1
              /\ \A k \in Occurrences(result, engs[p[2]].id) : result[k].type = TypeCall

\* C7: under concurrent first use the stage map is populated at most once
\* and every caller gets the same map
C7_PopulatedOnce ==
    /\ builds <= 1
    /\ \A t, u \in Threads :
          (tret[t].done /\ tret[u].done) => tret[t].map = tret[u].map

\* C8: a lookup without a match ends the request with the 404 outcome, and
\* no CRM call follows the search that found nothing
C8_NotFoundAborts ==
    /\ notFound = "contact" =>
          /\ outcome = "http404"
          /\ pc = "done"
          /\ calls = <<"contact_search">>
    /\ notFound = "company" =>
          /\ outcome = "http404"
          /\ pc = "done"
          /\ calls \in {<<"company_search">>, <<"contact_search", "company_search">>}
    /\ outcome = "http404" => notFound # "none"

\* the contact matched, the company search then found nothing
C8_Witness ==
    /\ notFound = "company"
    /\ outcome = "http404"
    /\ calls = <<"contact_search", "company_search">>

\* C9: in one fetch scope the k-th request gets the k-th page: each request
\* after the first carries the offset the previous page gave, whatever its
\* value, the offset 0 included
C9_Pagination ==
    /\ \A k \in 1..Len(fetched) : fetched[k].page = k
    /\ \A k \in 2..Len(fetched) :
          /\ chain[k - 1].hasMore
          /\ fetched[k].param = chain[k - 1].offset

\* the text a field contributes to the subject: markup removed and
\* whitespace trimmed, body-derived fields cut to the snippet length
FieldText(m, f) ==
    IF f \in {"subject", "emailSubject"}
    THEN strip_html(m[f])
    ELSE Prefix(strip_html(m[f]), SnippetLen)

\* the first field of the chain whose text is not empty gives the subject
ExpectedSubject(m) ==
    LET hits == {i \in 1..Len(EmailFields) : FieldText(m, EmailFields[i]) # <<>>}
    IN  IF hits = {} THEN NoSubject
        ELSE FieldText(m, EmailFields[CHOOSE i \in hits : \A j \in hits : i <= j])

\* C10: the subject is the first of subject, emailSubject, a snippet of
\* bodyPreview, body, text that is non-empty once stripped, else the
\* placeholder, and is never empty
C10_SubjectFallback ==
    subjectOut.done =>
        /\ subjectOut.s = ExpectedSubject(metadata)
        /\ subjectOut.s # <<>>

====
